---- MODULE Spec2Model ----
(***************************************************************************)
(* chproxy: the process entry point (main.go: startup, SIGHUP reload, the  *)
(* method/path dispatcher serveHTTP), the configuration loader             *)
(* (config/config.go: the UnmarshalYAML validators and LoadFile) and the   *)
(* per-request life cycle of the reverse proxy.                            *)
(*                                                                         *)
(* A YAML mapping is a function from its keys to its values: DOMAIN m is   *)
(* the set of keys the document gives at that level, so an omitted key, an *)
(* empty list and an unknown key are three different documents.  Durations *)
(* are whole seconds.                                                      *)
(***************************************************************************)
EXTENDS Integers, Sequences, FiniteSets, TLC

VARIABLES
    pc,            \* main goroutine: "start", "loaded", "configured", "notified", "serving", "exited"
    configFile,    \* the -config flag ("" when not given)
    file,          \* the file on disk: [exists, doc]
    cfg,           \* main's cfg: the last result of loadConfig in main()
    proxyCfg,      \* the configuration the proxy runs (NoCfg before the first apply)
    logDebug,      \* log.SetDebug flag
    configSuccess, \* the configSuccess gauge
    configSuccessTime, \* the configSuccessTime gauge: the attempt (1 is the
                   \* startup, 1 + n the n-th reload) that set it last, 0 before
    handler,       \* the SIGHUP goroutine: "none", "idle" (blocked in <-c), "busy"
    lastReload,    \* outcome of the last reloadConfig: "none", "ok", "load", "apply"
    reloads,       \* reloadConfig calls made so far
    signals,       \* SIGHUPs delivered to the process since signal.Notify
    applyCalls,    \* proxy.applyConfig calls made so far
    server,        \* the HTTP settings the listener was started with
    served,        \* requests handled by serveHTTP so far
    lastReq,       \* the request serveHTTP handled last
    resp,          \* the response it gave
    badRequest,    \* the badRequest counter
    proxyCalls,    \* proxy.ServeHTTP calls made so far
    calls,         \* what serveHTTP called for the last request, in order
    rq,            \* the request inside proxy.ServeHTTP
    rstate,        \* its state: "None", "Received", "Authenticated", "Authorized",
                   \* "Admitted", "Forwarding", "Responding", "Cancelled", "Released"
    rstatus,       \* the status sent to the client (0: nothing sent)
    rbody,         \* the body sent with an error status
    admitted,      \* the request passed admission control
    upstream,      \* the backend's handler: "idle", "running", "holding", "answered", "closed"
    tmpFile,       \* the cache directory holds the producer's temp file
    cacheFile,     \* the cache directory holds the committed entry
    abortPending,  \* the cache producer was told to abort
    killPending,   \* a KILL QUERY was triggered and is not yet sent
    killsTo,       \* the clusters the KILL QUERY attempts went to, in order
    timedOut,      \* MaxExecutionTime elapsed before the upstream sent anything
    durIn,         \* the text handed to parseDuration, a sequence of characters
    durOut,        \* what parseDuration returned for it (NoDur before the call)
    marshalled,    \* the file yaml.Marshal of the loaded Config was written to
    again          \* LoadFile's result for that file (NoLoad before the call)

mainVars == <<pc, configFile, file, cfg, proxyCfg, logDebug, configSuccess, configSuccessTime,
              handler, lastReload, reloads, signals, applyCalls, server>>
httpVars == <<served, lastReq, resp, badRequest, proxyCalls, calls>>
proxyVars == <<rq, rstate, rstatus, rbody, admitted, upstream, tmpFile, cacheFile,
               abortPending, killPending, killsTo, timedOut>>
convVars == <<durIn, durOut, marshalled, again>>
vars == <<mainVars, httpVars, proxyVars, convVars>>

(***************************************************************************)
(* Bounds                                                                  *)
(***************************************************************************)
MaxEdits == 2      \* a loader input differs from the base document in at most this many places
MaxRequests == 1   \* requests served in one run
MaxReloads == 2    \* reloadConfig calls in one run
MaxDigits == 3     \* characters before the unit in a text handed to parseDuration

(***************************************************************************)
(* YAML documents                                                          *)
(***************************************************************************)
EmptyMap == [k \in {} |-> k]

Has(m, k) == k \in DOMAIN m

Without(m, k) == [x \in DOMAIN m \ {k} |-> m[x]]

\* the value of key k, or the value the Go field already holds
Field(m, k, old) == IF Has(m, k) THEN m[k] ELSE old

\* keys of the mapping that are no field of the struct: what the
\* yaml:",inline" map XXX collects
Overflow(m, known) == DOMAIN m \ known

Minute == 60

(***************************************************************************)
(* config/config.go: the structs and their UnmarshalYAML validators.  Each *)
(* validator returns [err, v]: err.msg = "" when the mapping is accepted,  *)
(* and v is the Go struct after the plain unmarshal of the mapping.       *)
(***************************************************************************)
NoErr == [msg |-> "", ctx |-> ""]

Err(m, c) == [msg |-> m, ctx |-> c]

Failed(r) == r.err.msg # ""

\* the first error among the results of a sequence's elements
SeqErr(rs) ==
    IF \E i \in 1..Len(rs) : Failed(rs[i])
    THEN rs[CHOOSE i \in 1..Len(rs) : Failed(rs[i]) /\ \A j \in 1..(i-1) : ~Failed(rs[j])].err
    ELSE NoErr

SeqVal(rs) == [i \in 1..Len(rs) |-> rs[i].v]

\* the first error of a list of errors, in the order the code tests them
FirstErr(es) ==
    IF \E i \in 1..Len(es) : es[i].msg # ""
    THEN es[CHOOSE i \in 1..Len(es) : es[i].msg # "" /\ \A j \in 1..(i-1) : es[j].msg = ""]
    ELSE NoErr

checkOverflow(XXX, ctx) ==
    IF XXX # {} THEN Err("unknown fields", ctx) ELSE NoErr

defaultClusterUser ==
    [Name |-> "default", Password |-> "", MaxConcurrentQueries |-> 0,
     MaxExecutionTime |-> 0, ReqPerMin |-> 0, MaxQueueSize |-> 0,
     MaxQueueTime |-> 0, XXX |-> {}]

ZeroKillQueryUser == [Name |-> "", Password |-> "", XXX |-> {}]

defaultCluster ==
    [Name |-> "", Nodes |-> <<>>, Replicas |-> <<>>,
     ClusterUsers |-> <<defaultClusterUser>>,
     KillQueryUser |-> ZeroKillQueryUser, HeartBeatInterval |-> 0, XXX |-> {}]

ZeroHTTP ==
    [ListenAddr |-> "", ReadTimeout |-> 0, WriteTimeout |-> 0, IdleTimeout |-> 0,
     XXX |-> {}]

ZeroServer == [HTTP |-> ZeroHTTP, XXX |-> {}]

defaultConfig ==
    [Server |-> ZeroServer, Clusters |-> <<defaultCluster>>, Users |-> <<>>,
     LogDebug |-> FALSE, Caches |-> <<>>, ParamGroups |-> <<>>, XXX |-> {}]

Result(e, v) == [err |-> e, v |-> v]

\* the elements of a list, each unmarshalled: the first error and the values
SeqResult(rs) == Result(SeqErr(rs), SeqVal(rs))

HTTPKeys == {"listen_addr", "read_timeout", "write_timeout", "idle_timeout"}

HTTPDecode(m) ==
    [ListenAddr   |-> Field(m, "listen_addr", ""),
     ReadTimeout  |-> Field(m, "read_timeout", 0),
     WriteTimeout |-> Field(m, "write_timeout", 0),
     IdleTimeout  |-> Field(m, "idle_timeout", 0),
     XXX          |-> Overflow(m, HTTPKeys)]

HTTPValidate(c) ==
    Result(checkOverflow(c.XXX, "http"),
           [c EXCEPT !.ReadTimeout = IF @ = 0 THEN Minute ELSE @,
                     !.IdleTimeout = IF @ = 0 THEN 10 * Minute ELSE @])

HTTPUnmarshal(m) == HTTPValidate(HTTPDecode(m))

ServerDecode(m, h) == Result(h.err, [HTTP |-> h.v, XXX |-> Overflow(m, {"http"})])

ServerValidate(d) == Result(FirstErr(<<d.err, checkOverflow(d.v.XXX, "server")>>), d.v)

ServerUnmarshal(m) ==
    ServerValidate(ServerDecode(m, IF Has(m, "http") THEN HTTPUnmarshal(m["http"])
                                                     ELSE Result(NoErr, ZeroHTTP)))

ReplicaDecode(m) ==
    [Name |-> Field(m, "name", ""), Nodes |-> Field(m, "nodes", <<>>),
     XXX |-> Overflow(m, {"name", "nodes"})]

ReplicaValidate(r) ==
    Result(FirstErr(<<
             IF r.Name = "" THEN Err("replica.name cannot be empty", "") ELSE NoErr,
             IF Len(r.Nodes) = 0 THEN Err("replica.nodes cannot be empty", r.Name) ELSE NoErr,
             checkOverflow(r.XXX, r.Name)>>),
           r)

ReplicaUnmarshal(m) == ReplicaValidate(ReplicaDecode(m))

KillQueryUserDecode(m) ==
    [Name |-> Field(m, "name", ""), Password |-> Field(m, "password", ""),
     XXX |-> Overflow(m, {"name", "password"})]

KillQueryUserValidate(u) ==
    Result(FirstErr(<<
             IF u.Name = "" THEN Err("cluster.kill_query_user.name must be specified", "")
                            ELSE NoErr,
             checkOverflow(u.XXX, "kill_query_user")>>),
           u)

KillQueryUserUnmarshal(m) == KillQueryUserValidate(KillQueryUserDecode(m))

ClusterUserKeys ==
    {"name", "password", "max_concurrent_queries", "max_execution_time",
     "requests_per_minute", "max_queue_size", "max_queue_time"}

ClusterUserDecode(m) ==
    [Name |-> Field(m, "name", ""), Password |-> Field(m, "password", ""),
     MaxConcurrentQueries |-> Field(m, "max_concurrent_queries", 0),
     MaxExecutionTime |-> Field(m, "max_execution_time", 0),
     ReqPerMin |-> Field(m, "requests_per_minute", 0),
     MaxQueueSize |-> Field(m, "max_queue_size", 0),
     MaxQueueTime |-> Field(m, "max_queue_time", 0),
     XXX |-> Overflow(m, ClusterUserKeys)]

ClusterUserValidate(cu) ==
    Result(FirstErr(<<
             IF cu.Name = "" THEN Err("cluster.user.name cannot be empty", "") ELSE NoErr,
             IF cu.MaxQueueTime > 0 /\ cu.MaxQueueSize = 0
             THEN Err("max_queue_size must be set if max_queue_time is set", cu.Name)
             ELSE NoErr,
             checkOverflow(cu.XXX, cu.Name)>>),
           cu)

ClusterUserUnmarshal(m) == ClusterUserValidate(ClusterUserDecode(m))

ClusterKeys ==
    {"name", "nodes", "replicas", "users", "kill_query_user", "heartbeat_interval"}

\* c starts as defaultCluster; the keys the mapping gives overwrite its fields
ClusterDecode(m, rs, us, k) ==
    Result(FirstErr(<<rs.err, us.err, k.err>>),
           [Name |-> Field(m, "name", defaultCluster.Name),
            Nodes |-> Field(m, "nodes", defaultCluster.Nodes),
            Replicas |-> IF Has(m, "replicas") THEN rs.v ELSE defaultCluster.Replicas,
            ClusterUsers |-> IF Has(m, "users") THEN us.v ELSE defaultCluster.ClusterUsers,
            KillQueryUser |-> k.v,
            HeartBeatInterval |-> Field(m, "heartbeat_interval", defaultCluster.HeartBeatInterval),
            XXX |-> Overflow(m, ClusterKeys)])

ClusterChecks(c) ==
    <<IF c.Name = "" THEN Err("cluster.name cannot be empty", "") ELSE NoErr,
      IF Len(c.Nodes) = 0 /\ Len(c.Replicas) = 0
      THEN Err("either cluster.nodes or cluster.replicas must be set", c.Name) ELSE NoErr,
      IF Len(c.Nodes) > 0 /\ Len(c.Replicas) > 0
      THEN Err("cluster.nodes cannot be simultaneously set with cluster.replicas", c.Name)
      ELSE NoErr,
      IF Len(c.ClusterUsers) = 0
      THEN Err("cluster.users must contain at least 1 user", c.Name) ELSE NoErr,
      checkOverflow(c.XXX, c.Name)>>

ClusterValidate(d) ==
    Result(FirstErr(<<d.err>> \o ClusterChecks(d.v)),
           [d.v EXCEPT !.HeartBeatInterval = IF @ = 0 THEN 5 ELSE @])

ClusterUnmarshal(m) ==
    ClusterValidate(ClusterDecode(m,
        SeqResult([i \in 1..Len(Field(m, "replicas", <<>>)) |-> ReplicaUnmarshal(m["replicas"][i])]),
        SeqResult([i \in 1..Len(Field(m, "users", <<>>)) |-> ClusterUserUnmarshal(m["users"][i])]),
        IF Has(m, "kill_query_user") THEN KillQueryUserUnmarshal(m["kill_query_user"])
                                     ELSE Result(NoErr, defaultCluster.KillQueryUser)))

UserKeys ==
    {"name", "password", "to_cluster", "to_user", "max_concurrent_queries",
     "max_execution_time", "requests_per_minute", "max_queue_size", "max_queue_time",
     "deny_http", "deny_https", "allow_cors", "cache", "params"}

\* the decode with the deny_http key not read into DenyHTTP
UserDecode_NoDenyHTTP(m) ==
    [Name |-> Field(m, "name", ""), Password |-> Field(m, "password", ""),
     ToCluster |-> Field(m, "to_cluster", ""), ToUser |-> Field(m, "to_user", ""),
     MaxConcurrentQueries |-> Field(m, "max_concurrent_queries", 0),
     MaxExecutionTime |-> Field(m, "max_execution_time", 0),
     ReqPerMin |-> Field(m, "requests_per_minute", 0),
     MaxQueueSize |-> Field(m, "max_queue_size", 0),
     MaxQueueTime |-> Field(m, "max_queue_time", 0),
     DenyHTTP |-> FALSE,
     DenyHTTPS |-> Field(m, "deny_https", FALSE),
     AllowCORS |-> Field(m, "allow_cors", FALSE),
     Cache |-> Field(m, "cache", ""), Params |-> Field(m, "params", ""),
     XXX |-> Overflow(m, {"name", "password", "to_cluster", "to_user",
                          "max_concurrent_queries", "max_execution_time",
                          "requests_per_minute", "max_queue_size", "max_queue_time",
                          "deny_http", "deny_https", "allow_cors", "cache", "params"})]

UserDecode(m) ==
    [Name |-> Field(m, "name", ""), Password |-> Field(m, "password", ""),
     ToCluster |-> Field(m, "to_cluster", ""), ToUser |-> Field(m, "to_user", ""),
     MaxConcurrentQueries |-> Field(m, "max_concurrent_queries", 0),
     MaxExecutionTime |-> Field(m, "max_execution_time", 0),
     ReqPerMin |-> Field(m, "requests_per_minute", 0),
     MaxQueueSize |-> Field(m, "max_queue_size", 0),
     MaxQueueTime |-> Field(m, "max_queue_time", 0),
     DenyHTTP |-> Field(m, "deny_http", FALSE),
     DenyHTTPS |-> Field(m, "deny_https", FALSE),
     AllowCORS |-> Field(m, "allow_cors", FALSE),
     Cache |-> Field(m, "cache", ""), Params |-> Field(m, "params", ""),
     XXX |-> Overflow(m, UserKeys)]

\* the validator without the test of deny_http against deny_https
UserValidate_BothDeny(u) ==
    Result(FirstErr(<<
             IF u.Name = "" THEN Err("user.name cannot be empty", "") ELSE NoErr,
             IF u.ToUser = "" THEN Err("user.to_user cannot be empty", u.Name) ELSE NoErr,
             IF u.ToCluster = "" THEN Err("user.to_cluster cannot be empty", u.Name) ELSE NoErr,
             IF u.MaxQueueTime > 0 /\ u.MaxQueueSize = 0
             THEN Err("max_queue_size must be set if max_queue_time is set", u.Name)
             ELSE NoErr,
             checkOverflow(u.XXX, u.Name)>>),
           u)

\* the validator without the test of MaxQueueTime against MaxQueueSize
UserValidate_NoQueueCheck(u) ==
    Result(FirstErr(<<
             IF u.Name = "" THEN Err("user.name cannot be empty", "") ELSE NoErr,
             IF u.ToUser = "" THEN Err("user.to_user cannot be empty", u.Name) ELSE NoErr,
             IF u.ToCluster = "" THEN Err("user.to_cluster cannot be empty", u.Name) ELSE NoErr,
             IF u.DenyHTTP /\ u.DenyHTTPS
             THEN Err("deny_http and deny_https cannot be simultaneously set to true", u.Name)
             ELSE NoErr,
             checkOverflow(u.XXX, u.Name)>>),
           u)

UserValidate(u) ==
    Result(FirstErr(<<
             IF u.Name = "" THEN Err("user.name cannot be empty", "") ELSE NoErr,
             IF u.ToUser = "" THEN Err("user.to_user cannot be empty", u.Name) ELSE NoErr,
             IF u.ToCluster = "" THEN Err("user.to_cluster cannot be empty", u.Name) ELSE NoErr,
             IF u.DenyHTTP /\ u.DenyHTTPS
             THEN Err("deny_http and deny_https cannot be simultaneously set to true", u.Name)
             ELSE NoErr,
             IF u.MaxQueueTime > 0 /\ u.MaxQueueSize = 0
             THEN Err("max_queue_size must be set if max_queue_time is set", u.Name)
             ELSE NoErr,
             checkOverflow(u.XXX, u.Name)>>),
           u)

UserUnmarshal(m) == UserValidate(UserDecode(m))

CacheKeys == {"name", "dir", "max_size", "expire", "grace_time"}

CacheDecode(m) ==
    [Name |-> Field(m, "name", ""), Dir |-> Field(m, "dir", ""),
     MaxSize |-> Field(m, "max_size", 0), Expire |-> Field(m, "expire", 0),
     GraceTime |-> Field(m, "grace_time", 0), XXX |-> Overflow(m, CacheKeys)]

CacheValidate(c) ==
    Result(FirstErr(<<
             IF c.Name = "" THEN Err("cache.name must be specified", "") ELSE NoErr,
             IF c.Dir = "" THEN Err("cache.dir must be specified", c.Name) ELSE NoErr,
             IF c.MaxSize <= 0 THEN Err("cache.max_size must be specified", c.Name) ELSE NoErr,
             checkOverflow(c.XXX, c.Name)>>),
           c)

CacheUnmarshal(m) == CacheValidate(CacheDecode(m))

\* Param has no UnmarshalYAML and no XXX field: yaml.Unmarshal fills Key and
\* Value and passes over every other key of the entry
ParamDecode(m) == [Key |-> Field(m, "key", ""), Value |-> Field(m, "value", "")]

ParamGroupDecode(m) ==
    [Name |-> Field(m, "name", ""),
     Params |-> [i \in 1..Len(Field(m, "params", <<>>)) |-> ParamDecode(m["params"][i])],
     XXX |-> Overflow(m, {"name", "params"})]

ParamGroupValidate(pg) ==
    Result(FirstErr(<<
             IF pg.Name = "" THEN Err("param_group.name must be specified", "") ELSE NoErr,
             IF Len(pg.Params) = 0
             THEN Err("param_group.params must contain at least one param", "") ELSE NoErr,
             checkOverflow(pg.XXX, pg.Name)>>),
           pg)

ParamGroupUnmarshal(m) == ParamGroupValidate(ParamGroupDecode(m))

ConfigKeys == {"server", "clusters", "users", "log_debug", "caches", "param_groups"}

\* c starts as defaultConfig; the keys the document gives overwrite its fields
ConfigDecode(m, s, cls, us, cas, pgs) ==
    Result(FirstErr(<<s.err, cls.err, us.err, cas.err, pgs.err>>),
           [Server |-> s.v,
            Clusters |-> IF Has(m, "clusters") THEN cls.v ELSE defaultConfig.Clusters,
            Users |-> IF Has(m, "users") THEN us.v ELSE defaultConfig.Users,
            LogDebug |-> Field(m, "log_debug", defaultConfig.LogDebug),
            Caches |-> IF Has(m, "caches") THEN cas.v ELSE defaultConfig.Caches,
            ParamGroups |-> IF Has(m, "param_groups") THEN pgs.v ELSE defaultConfig.ParamGroups,
            XXX |-> Overflow(m, ConfigKeys)])

ConfigChecks(c) ==
    <<IF Len(c.Users) = 0 THEN Err("users must contain at least 1 user", "") ELSE NoErr,
      IF Len(c.Clusters) = 0 THEN Err("clusters must contain at least 1 cluster", "") ELSE NoErr,
      IF c.Server.HTTP.ListenAddr = "" THEN Err("HTTP is not configured", "") ELSE NoErr,
      checkOverflow(c.XXX, "config")>>

ConfigValidate(d) == Result(FirstErr(<<d.err>> \o ConfigChecks(d.v)), d.v)

ConfigUnmarshal(m) ==
    ConfigValidate(ConfigDecode(m,
        IF Has(m, "server") THEN ServerUnmarshal(m["server"])
                            ELSE Result(NoErr, defaultConfig.Server),
        SeqResult([i \in 1..Len(Field(m, "clusters", <<>>)) |-> ClusterUnmarshal(m["clusters"][i])]),
        SeqResult([i \in 1..Len(Field(m, "users", <<>>)) |-> UserUnmarshal(m["users"][i])]),
        SeqResult([i \in 1..Len(Field(m, "caches", <<>>)) |-> CacheUnmarshal(m["caches"][i])]),
        SeqResult([i \in 1..Len(Field(m, "param_groups", <<>>)) |->
                     ParamGroupUnmarshal(m["param_groups"][i])])))

SetMax(S) == IF S = {} THEN 0 ELSE CHOOSE x \in S : \A y \in S : y <= x

Range(s) == {s[i] : i \in 1..Len(s)}

\* the maximum taken over the users alone: the loop over cfg.Clusters left out
maxResponseTime_UsersOnly(c) ==
    SetMax({u.MaxExecutionTime + u.MaxQueueTime : u \in Range(c.Users)} \cup {0}) + Minute

\* LoadFile: the largest MaxExecutionTime + MaxQueueTime over the cluster users
\* and the users, plus the additional minute
maxResponseTime(c) ==
    LET cuds == UNION {{cu.MaxExecutionTime + cu.MaxQueueTime : cu \in Range(cl.ClusterUsers)} :
                       cl \in Range(c.Clusters)}
        uds  == {u.MaxExecutionTime + u.MaxQueueTime : u \in Range(c.Users)}
    IN  SetMax(cuds \cup uds \cup {0}) + Minute

NoCfg == [loaded |-> FALSE]

Loaded(c) == [loaded |-> TRUE, c |-> c]

\* LoadFile after yaml.Unmarshal succeeded: the default write timeout
LoadFinish(c) ==
    IF c.Server.HTTP.ListenAddr # "" /\ c.Server.HTTP.WriteTimeout = 0
    THEN [c EXCEPT !.Server.HTTP.WriteTimeout = maxResponseTime(c)]
    ELSE c

LoadResult(r) ==
    IF Failed(r) THEN Result(r.err, NoCfg) ELSE Result(NoErr, Loaded(LoadFinish(r.v)))

LoadFile(f) ==
    IF ~f.exists THEN Result(Err("no such file or directory", ""), NoCfg)
    ELSE LoadResult(ConfigUnmarshal(f.doc))

(***************************************************************************)
(* The loader's inputs: a complete valid document (two clusters, one with  *)
(* nodes and one with replicas, a user, a cache, a param group) changed in *)
(* the places a set of edits names.                                        *)
(***************************************************************************)
Edits ==
    {"no_server", "no_http", "no_listen", "empty_listen", "no_clusters",
     "empty_clusters", "no_users", "empty_users", "log_debug", "write_timeout",
     "write_timeout_zero",
     "x_config", "x_server", "x_http",
     "c1_noname", "c1_no_nodes", "c1_replicas", "c1_no_users", "c1_empty_users",
     "x_cluster", "cu_noname", "cu_queue_time", "cu_queue_size", "cu_exec",
     "x_cluster_user", "kqu_noname", "x_kill_query_user",
     "c2_nodes", "r_noname", "r_no_nodes", "x_replica",
     "u_noname", "u_no_to_user", "u_no_to_cluster", "u_deny_http", "u_deny_https",
     "u_queue_time", "u_queue_size", "u_exec", "u_wrong_cluster", "u_wrong_user",
     "u_cache", "u_allow_cors", "x_user",
     "no_caches", "cache_noname", "cache_nodir", "cache_nosize", "x_cache",
     "pg_noname", "pg_no_params", "x_param_group", "x_param"}

Opt(cond, k, v) == IF cond THEN k :> v ELSE EmptyMap

Unknown(cond) == Opt(cond, "unknown_field", "x")

DocHTTP(e) ==
    Opt("no_listen" \notin e, "listen_addr", IF "empty_listen" \in e THEN "" ELSE ":9090")
    @@ Opt("write_timeout" \in e \/ "write_timeout_zero" \in e, "write_timeout",
           IF "write_timeout_zero" \in e THEN 0 ELSE 2 * Minute)
    @@ Unknown("x_http" \in e)

DocServer(e) == Opt("no_http" \notin e, "http", DocHTTP(e)) @@ Unknown("x_server" \in e)

DocReplica(e) ==
    Opt("r_noname" \notin e, "name", "r1")
    @@ Opt("r_no_nodes" \notin e, "nodes", <<"n3">>)
    @@ Unknown("x_replica" \in e)

DocClusterUser(e) ==
    Opt("cu_noname" \notin e, "name", "web")
    @@ Opt("cu_queue_time" \in e, "max_queue_time", 10)
    @@ Opt("cu_queue_size" \in e, "max_queue_size", 5)
    @@ Opt("cu_exec" \in e, "max_execution_time", 30)
    @@ Unknown("x_cluster_user" \in e)

DocKillQueryUser(e) ==
    Opt("kqu_noname" \notin e, "name", "default") @@ Unknown("x_kill_query_user" \in e)

DocCluster1(e) ==
    Opt("c1_noname" \notin e, "name", "first")
    @@ Opt("c1_no_nodes" \notin e, "nodes", <<"n1", "n2">>)
    @@ Opt("c1_replicas" \in e, "replicas", <<[name |-> "r0", nodes |-> <<"n0">>]>>)
    @@ Opt("c1_no_users" \notin e, "users",
           IF "c1_empty_users" \in e THEN <<>> ELSE <<DocClusterUser(e)>>)
    @@ ("kill_query_user" :> DocKillQueryUser(e))
    @@ Unknown("x_cluster" \in e)

DocCluster2(e) ==
    ("name" :> "second")
    @@ Opt("c2_nodes" \in e, "nodes", <<"n4">>)
    @@ ("replicas" :> <<DocReplica(e)>>)

DocUser(e) ==
    Opt("u_noname" \notin e, "name", "default")
    @@ Opt("u_no_to_cluster" \notin e, "to_cluster",
           IF "u_wrong_cluster" \in e THEN "nowhere" ELSE "first")
    @@ Opt("u_no_to_user" \notin e, "to_user",
           IF "u_wrong_user" \in e THEN "nobody" ELSE "web")
    @@ Opt("u_deny_http" \in e, "deny_http", TRUE)
    @@ Opt("u_deny_https" \in e, "deny_https", TRUE)
    @@ Opt("u_queue_time" \in e, "max_queue_time", 20)
    @@ Opt("u_queue_size" \in e, "max_queue_size", 5)
    @@ Opt("u_exec" \in e, "max_execution_time", 60)
    @@ Opt("u_cache" \in e, "cache", "longterm")
    @@ Opt("u_allow_cors" \in e, "allow_cors", TRUE)
    @@ Unknown("x_user" \in e)

DocCache(e) ==
    Opt("cache_noname" \notin e, "name", "longterm")
    @@ Opt("cache_nodir" \notin e, "dir", "/cache")
    @@ Opt("cache_nosize" \notin e, "max_size", 100)
    @@ Unknown("x_cache" \in e)

DocParam(e) == ("key" :> "max_memory_usage") @@ ("value" :> "1") @@ Unknown("x_param" \in e)

DocParamGroup(e) ==
    Opt("pg_noname" \notin e, "name", "web")
    @@ Opt("pg_no_params" \notin e, "params", <<DocParam(e)>>)
    @@ Unknown("x_param_group" \in e)

Doc(e) ==
    Opt("no_server" \notin e, "server", DocServer(e))
    @@ Opt("no_clusters" \notin e, "clusters",
           IF "empty_clusters" \in e THEN <<>> ELSE <<DocCluster1(e), DocCluster2(e)>>)
    @@ Opt("no_users" \notin e, "users",
           IF "empty_users" \in e THEN <<>> ELSE <<DocUser(e)>>)
    @@ Opt("log_debug" \in e, "log_debug", TRUE)
    @@ Opt("no_caches" \notin e, "caches", <<DocCache(e)>>)
    @@ ("param_groups" :> <<DocParamGroup(e)>>)
    @@ Unknown("x_config" \in e)

RECURSIVE EditSets(_)
\* the sets of at most n edits
EditSets(n) ==
    IF n = 0 THEN {{}}
    ELSE LET S == EditSets(n - 1) IN S \cup {e \cup {x} : e \in S, x \in Edits}

FileOf(e) == [exists |-> TRUE, doc |-> Doc(e)]

NoFile == [exists |-> FALSE, doc |-> EmptyMap]

\* the files the running process finds on disk at startup and at a reload
FileDocs ==
    {FileOf({}), FileOf({"log_debug", "u_allow_cors"}), FileOf({"x_cluster"}), FileOf({"no_clusters"}),
     FileOf({"write_timeout", "u_deny_http"}), NoFile}

(***************************************************************************)
(* proxy.applyConfig: the users are resolved against the clusters by name  *)
(* when the configuration is applied; an unresolved name is an error and   *)
(* the running snapshot stays.                                             *)
(***************************************************************************)
Resolves(c, u) ==
    \E cl \in Range(c.Clusters) :
        /\ cl.Name = u.ToCluster
        /\ \E cu \in Range(cl.ClusterUsers) : cu.Name = u.ToUser

proxyApplyConfigOK(c) == \A u \in Range(c.Users) : Resolves(c, u)

(***************************************************************************)
(* main.go: startup                                                        *)
(***************************************************************************)
NoServer == [ListenAddr |-> "", ReadTimeout |-> 0, WriteTimeout |-> 0, IdleTimeout |-> 0]

ServerOf(h) ==
    [ListenAddr |-> h.ListenAddr, ReadTimeout |-> h.ReadTimeout,
     WriteTimeout |-> h.WriteTimeout, IdleTimeout |-> h.IdleTimeout]

NoReq == [method |-> "", path |-> "", query |-> ""]

NoResp == [status |-> 0, headers |-> {}, body |-> <<>>]

NoRq == [scheme |-> "", name |-> "", query |-> "", deadline |-> FALSE]

\* a Duration is a count of nanoseconds; it is held as whole seconds and the
\* nanoseconds below a second
ZeroDuration == [s |-> 0, ns |-> 0]

NoParse == [ok |-> FALSE, err |-> "", d |-> ZeroDuration]

\* the steps made on the text durIn: the first parse (ok, err, d), the text
\* String gave for d, and the parse of that text (re)
NoDur == [phase |-> "none", text |-> <<>>, re |-> NoParse] @@ NoParse

NoLoad == [err |-> Err("not loaded", ""), v |-> NoCfg, done |-> FALSE]

\* nothing was parsed or marshalled yet
ConvIdle ==
    /\ durIn = <<>>
    /\ durOut = NoDur
    /\ marshalled = NoFile
    /\ again = NoLoad

MainInit(files, flags) ==
    /\ pc = "start"
    /\ configFile \in flags
    /\ file \in files
    /\ cfg = NoCfg
    /\ proxyCfg = NoCfg
    /\ logDebug = FALSE
    /\ configSuccess = 0
    /\ configSuccessTime = 0
    /\ handler = "none"
    /\ lastReload = "none"
    /\ reloads = 0
    /\ signals = 0
    /\ applyCalls = 0
    /\ server = NoServer
    /\ served = 0
    /\ lastReq = NoReq
    /\ resp = NoResp
    /\ badRequest = 0
    /\ proxyCalls = 0
    /\ calls = <<>>
    /\ rq = NoRq
    /\ rstate = "None"
    /\ rstatus = 0
    /\ rbody = <<>>
    /\ admitted = FALSE
    /\ upstream = "idle"
    /\ tmpFile = FALSE
    /\ cacheFile = FALSE
    /\ abortPending = FALSE
    /\ killPending = FALSE
    /\ killsTo = <<>>
    /\ timedOut = FALSE

\* loadConfig: fatal without the -config flag; otherwise LoadFile's result
\* and the value it sets the configSuccess gauge to
loadConfig(flag, f) ==
    IF flag = ""
    THEN [fatal |-> TRUE, err |-> Err("Missing -config flag", ""), v |-> NoCfg, gauge |-> -1]
    ELSE LET r == LoadFile(f)
         IN  [fatal |-> FALSE, err |-> r.err, v |-> r.v, gauge |-> IF Failed(r) THEN 0 ELSE 1]

\* applyConfig with the error of proxy.applyConfig dropped
applyConfig_ErrIgnored(c, old) == [ok |-> TRUE, proxyCfg |-> c, logDebug |-> c.c.LogDebug]

\* applyConfig: proxy.applyConfig, then log.SetDebug only when it succeeded
applyConfig(c, old) ==
    IF proxyApplyConfigOK(c.c)
    THEN [ok |-> TRUE, proxyCfg |-> c, logDebug |-> c.c.LogDebug]
    ELSE [ok |-> FALSE, proxyCfg |-> old.proxyCfg, logDebug |-> old.logDebug]

\* main, lines 36-39: a missing -config flag or a failed load is fatal
MainLoad ==
    /\ pc = "start"
    /\ LET r == loadConfig(configFile, file)
       IN  /\ configSuccess' = IF r.fatal THEN configSuccess ELSE r.gauge
           /\ configSuccessTime' = IF r.gauge = 1 THEN 1 ELSE configSuccessTime
           /\ cfg' = r.v
           /\ pc' = IF r.fatal \/ Failed(r) THEN "exited" ELSE "loaded"
    /\ UNCHANGED <<configFile, file, proxyCfg, logDebug, handler, lastReload, reloads, signals,
                   applyCalls, server, httpVars, proxyVars>>
    /\ UNCHANGED convVars

\* main, lines 40-43: a failed apply is fatal
MainApply ==
    /\ pc = "loaded"
    /\ applyCalls' = applyCalls + 1
    /\ LET a == applyConfig(cfg, [proxyCfg |-> proxyCfg, logDebug |-> logDebug])
       IN  /\ proxyCfg' = a.proxyCfg
           /\ logDebug' = a.logDebug
           /\ pc' = IF a.ok THEN "configured" ELSE "exited"
    /\ UNCHANGED <<configFile, file, cfg, configSuccess, configSuccessTime, handler,
                   lastReload, reloads, signals,
                   server, httpVars, proxyVars>>
    /\ UNCHANGED convVars

\* main, lines 45-59: signal.Notify and the goroutine that waits on the channel
MainNotify ==
    /\ pc = "configured"
    /\ handler' = "idle"
    /\ pc' = "notified"
    /\ UNCHANGED <<configFile, file, cfg, proxyCfg, logDebug, configSuccess, configSuccessTime, lastReload,
                   reloads, signals, applyCalls, server, httpVars, proxyVars>>
    /\ UNCHANGED convVars

\* main, lines 61-68, serve and newListener: the listener is bound to the
\* address of the configuration loaded at startup; a failed bind is fatal
MainServe ==
    /\ pc = "notified"
    /\ \E bound \in BOOLEAN :
         IF cfg.c.Server.HTTP.ListenAddr = "" \/ ~bound
         THEN pc' = "exited" /\ UNCHANGED server
         ELSE pc' = "serving" /\ server' = ServerOf(cfg.c.Server.HTTP)
    /\ UNCHANGED <<configFile, file, cfg, proxyCfg, logDebug, configSuccess, configSuccessTime, handler,
                   lastReload, reloads, signals, applyCalls, httpVars, proxyVars>>
    /\ UNCHANGED convVars

(***************************************************************************)
(* main.go: SIGHUP and reloadConfig                                        *)
(***************************************************************************)
Running == pc \in {"notified", "serving"}

\* A SIGHUP is delivered to the process. The channel has no buffer and
\* signal.Notify never blocks on the send: the signal wakes the goroutine
\* when it is blocked in the receive and is dropped while the goroutine is
\* in reloadConfig.
Sighup ==
    /\ Running
    /\ handler \in {"idle", "busy"}
    /\ signals < MaxReloads
    /\ signals' = signals + 1
    /\ handler' = "busy"
    /\ UNCHANGED <<pc, configFile, file, cfg, proxyCfg, logDebug, configSuccess, configSuccessTime,
                   lastReload, reloads, applyCalls, server, httpVars, proxyVars>>
    /\ UNCHANGED convVars

\* reloadConfig with the error of loadConfig dropped: applyConfig runs on
\* whatever loadConfig returned
reloadConfig_ErrIgnored(r, old) ==
    [outcome |-> IF Failed(r) THEN "load" ELSE "ok", applied |-> 1,
     proxyCfg |-> r.v, logDebug |-> IF Failed(r) THEN FALSE ELSE r.v.c.LogDebug]

\* reloadConfig on loadConfig's result r: the error is returned before
\* applyConfig is reached
reloadConfig(r, old) ==
    IF Failed(r)
    THEN [outcome |-> "load", applied |-> 0, proxyCfg |-> old.proxyCfg, logDebug |-> old.logDebug]
    ELSE LET a == applyConfig(r.v, old)
         IN  [outcome |-> IF a.ok THEN "ok" ELSE "apply", applied |-> 1,
              proxyCfg |-> a.proxyCfg, logDebug |-> a.logDebug]

\* the loop body with a reload that also restarts the listener with the
\* reloaded server section
ReloadConfig_Rebind ==
    /\ Running
    /\ handler = "busy"
    /\ LET r == loadConfig(configFile, file)
           o == reloadConfig(r, [proxyCfg |-> proxyCfg, logDebug |-> logDebug])
       IN  /\ configSuccess' = r.gauge
           /\ configSuccessTime' = IF r.gauge = 1 THEN reloads + 2 ELSE configSuccessTime
           /\ lastReload' = o.outcome
           /\ proxyCfg' = o.proxyCfg
           /\ logDebug' = o.logDebug
           /\ applyCalls' = applyCalls + o.applied
           /\ server' = IF o.outcome = "ok" /\ pc = "serving"
                        THEN ServerOf(o.proxyCfg.c.Server.HTTP) ELSE server
    /\ reloads' = reloads + 1
    /\ handler' = "idle"
    /\ UNCHANGED <<pc, configFile, file, cfg, signals, httpVars, proxyVars>>
    /\ UNCHANGED convVars

\* the goroutine's loop body, lines 49-57: the error is logged and the loop
\* goes back to the receive
ReloadConfig ==
    /\ Running
    /\ handler = "busy"
    /\ LET r == loadConfig(configFile, file)
           o == reloadConfig(r, [proxyCfg |-> proxyCfg, logDebug |-> logDebug])
       IN  IF r.fatal
           THEN /\ pc' = "exited"
                /\ UNCHANGED <<configSuccess, configSuccessTime, lastReload, proxyCfg, logDebug, applyCalls>>
           ELSE /\ configSuccess' = r.gauge
                /\ configSuccessTime' = IF r.gauge = 1 THEN reloads + 2 ELSE configSuccessTime
                /\ lastReload' = o.outcome
                /\ proxyCfg' = o.proxyCfg
                /\ logDebug' = o.logDebug
                /\ applyCalls' = applyCalls + o.applied
                /\ pc' = pc
    /\ reloads' = reloads + 1
    /\ handler' = "idle"
    /\ UNCHANGED <<configFile, file, cfg, signals, server, httpVars, proxyVars>>
    /\ UNCHANGED convVars

\* the operator rewrites the configuration file
EditFile ==
    /\ pc # "exited"
    /\ \E f \in FileDocs : f # file /\ file' = f
    /\ UNCHANGED <<pc, configFile, cfg, proxyCfg, logDebug, configSuccess, configSuccessTime, handler,
                   lastReload, reloads, signals, applyCalls, server, httpVars, proxyVars>>
    /\ UNCHANGED convVars

(***************************************************************************)
(* main.go: serveHTTP                                                      *)
(***************************************************************************)
Methods == {"GET", "POST", "OPTIONS", "CONNECT", "HEAD"}

Paths == {"/", "/metrics", "/favicon.ico", "/foobar"}

Queries == {"", "query=asd"}

Requests == [method : Methods, path : Paths, query : Queries]

\* the statuses proxy.ServeHTTP answers with
ProxyStatuses == {200, 403, 504}

StatusOK == 200
StatusBadRequest == 400
StatusMethodNotAllowed == 405

\* respondWith(rw, err, status): the status and the error text as the body
respondWith(headers, err, status) == [status |-> status, headers |-> headers, body |-> err]

\* a handler that returns without WriteHeader answers 200
Implicit(headers) == [status |-> StatusOK, headers |-> headers, body |-> <<>>]

\* What serveHTTP does before the call it ends in: the response it writes
\* itself (written = FALSE when the response is left to the handler it
\* calls), the calls it makes and the increment of badRequest.

\* the path switch without badRequest.Inc() in its default case
servePath_NoInc(r) ==
    CASE r.path = "/favicon.ico" ->
           [written |-> TRUE, resp |-> Implicit({}), calls |-> <<>>, bad |-> 0]
      [] r.path = "/metrics" ->
           [written |-> FALSE, resp |-> NoResp,
            calls |-> <<"proxy.refreshCacheMetrics", "promHandler.ServeHTTP">>, bad |-> 0]
      [] r.path = "/" ->
           [written |-> FALSE, resp |-> NoResp, calls |-> <<"proxy.ServeHTTP">>, bad |-> 0]
      [] OTHER ->
           [written |-> TRUE,
            resp |-> respondWith({<<"Connection", "close">>},
                                 <<"unsupported path", r.path>>, StatusBadRequest),
            calls |-> <<>>, bad |-> 0]

\* the switch on r.URL.Path
servePath(r) ==
    CASE r.path = "/favicon.ico" ->
           [written |-> TRUE, resp |-> Implicit({}), calls |-> <<>>, bad |-> 0]
      [] r.path = "/metrics" ->
           [written |-> FALSE, resp |-> NoResp,
            calls |-> <<"proxy.refreshCacheMetrics", "promHandler.ServeHTTP">>, bad |-> 0]
      [] r.path = "/" ->
           [written |-> FALSE, resp |-> NoResp, calls |-> <<"proxy.ServeHTTP">>, bad |-> 0]
      [] OTHER ->
           [written |-> TRUE,
            resp |-> respondWith({<<"Connection", "close">>},
                                 <<"unsupported path", r.path>>, StatusBadRequest),
            calls |-> <<>>, bad |-> 1]

optionsReply == [written |-> TRUE, resp |-> Implicit({<<"Allow", "GET,POST">>}),
                 calls |-> <<>>, bad |-> 0]

methodNotAllowed(r) ==
    [written |-> TRUE,
     resp |-> respondWith({<<"Connection", "close">>},
                          <<"unsupported method", r.method>>, StatusMethodNotAllowed),
     calls |-> <<>>, bad |-> 0]

\* the method switch with OPTIONS in the first case: no return before the
\* path switch
serveHTTP_OptionsDispatched(r) ==
    IF r.method \in {"GET", "POST", "OPTIONS"} THEN servePath(r)
    ELSE methodNotAllowed(r)

\* the method switch without its default case: every other method goes on to
\* the path switch
serveHTTP_NoDefault(r) ==
    IF r.method = "OPTIONS" THEN optionsReply ELSE servePath(r)

\* the two switches in the other order: an unknown path is refused before
\* the method is looked at
serveHTTP_PathFirst(r) ==
    IF r.path \notin {"/favicon.ico", "/metrics", "/"} THEN servePath(r)
    ELSE IF r.method \in {"GET", "POST"} THEN servePath(r)
    ELSE IF r.method = "OPTIONS" THEN optionsReply
    ELSE methodNotAllowed(r)

\* the switch on r.Method, then the switch on the path
serveHTTP(r) ==
    IF r.method \in {"GET", "POST"} THEN servePath(r)
    ELSE IF r.method = "OPTIONS" THEN optionsReply
    ELSE methodNotAllowed(r)

Count(sq, x) == Cardinality({i \in 1..Len(sq) : sq[i] = x})

\* one request through the listener's handler
ServeHTTP ==
    /\ pc = "serving"
    /\ served < MaxRequests
    /\ \E r \in Requests :
         LET h == serveHTTP(r)
         IN  /\ lastReq' = r
             /\ calls' = h.calls
             /\ badRequest' = badRequest + h.bad
             /\ proxyCalls' = proxyCalls + Count(h.calls, "proxy.ServeHTTP")
             /\ IF h.written THEN resp' = h.resp
                ELSE IF h.calls[Len(h.calls)] = "proxy.ServeHTTP"
                THEN \E st \in ProxyStatuses :
                        resp' = [status |-> st, headers |-> {}, body |-> <<"proxy">>]
                ELSE resp' = [status |-> StatusOK, headers |-> {}, body |-> <<"metrics">>]
    /\ served' = served + 1
    /\ UNCHANGED <<mainVars, proxyVars>>
    /\ UNCHANGED convVars

Init == MainInit(FileDocs, {"", "config.yml"}) /\ ConvIdle

Next ==
    \/ MainLoad
    \/ MainApply
    \/ MainNotify
    \/ MainServe
    \/ Sighup
    \/ ReloadConfig
    \/ EditFile
    \/ ServeHTTP

Spec == Init /\ [][Next]_vars

(***************************************************************************)
(* The loader alone: startup's loadConfig on every document within         *)
(* MaxEdits edits of the base document, and on a missing file.             *)
(***************************************************************************)
LoadInit ==
    /\ MainInit({FileOf(e) : e \in EditSets(MaxEdits)} \cup {NoFile}, {"config.yml"})
    /\ ConvIdle

LoadNext == MainLoad

LoadSpec == LoadInit /\ [][LoadNext]_vars

(***************************************************************************)
(* proxy.ServeHTTP: one request through the reverse proxy, from the state  *)
(* machine Received -> Authenticated -> Authorized -> Admitted ->          *)
(* (cache hit | Forwarding) -> Responding -> Released, with the deadline   *)
(* and cancellation rules.  The backend is the fake ClickHouse handler of  *)
(* main_test.go.                                                           *)
(***************************************************************************)
ProxyFiles ==
    {FileOf({}), FileOf({"u_cache"}), FileOf({"u_cache", "u_exec"}), FileOf({"u_exec"}),
     FileOf({"u_deny_http"}), FileOf({"u_deny_https", "cu_exec"})}

Rqs == [scheme : {"http", "https"}, name : {"default", "ghost"},
        query : {"ok", "sleep"}, deadline : BOOLEAN]

UsersNamed(c, n) == {u \in Range(c.Users) : u.Name = n}

\* the proxy user of the request in flight
RqUser == CHOOSE u \in UsersNamed(proxyCfg.c, rq.name) : TRUE

ClusterUsersOf(c, u) ==
    UNION {{cu \in Range(cl.ClusterUsers) : cu.Name = u.ToUser} :
           cl \in {x \in Range(c.Clusters) : x.Name = u.ToCluster}}

\* the execution limits in force for the request: the user's and the
\* cluster user's MaxExecutionTime, where set
ExecLimits(c, u) ==
    {t \in {u.MaxExecutionTime} \cup {cu.MaxExecutionTime : cu \in ClusterUsersOf(c, u)} : t > 0}

StatusUnauthorized == 401
StatusForbidden == 403
StatusTooManyRequests == 429
StatusGatewayTimeout == 504

\* Authenticated -> Authorized: the per-user http/https allow flags
authorize(u, scheme) ==
    IF (scheme = "http" /\ u.DenyHTTP) \/ (scheme = "https" /\ u.DenyHTTPS)
    THEN [ok |-> FALSE, status |-> StatusForbidden,
          body |-> <<"user", u.Name, "is not allowed to access via", scheme>>]
    ELSE [ok |-> TRUE, status |-> 0, body |-> <<>>]

\* what the expiry of MaxExecutionTime triggers: 504 unless a status is
\* already out, the producer's abort, one KILL QUERY
onExecTimeout_NoKill(sent, hasTmp) ==
    [status |-> IF sent = 0 THEN StatusGatewayTimeout ELSE sent,
     abort |-> hasTmp, kill |-> FALSE]

onExecTimeout(sent, hasTmp) ==
    [status |-> IF sent = 0 THEN StatusGatewayTimeout ELSE sent,
     abort |-> hasTmp, kill |-> TRUE]

\* what the client's cancellation triggers: the producer's abort and one
\* KILL QUERY
onCancel_NoAbort(hasTmp) == [abort |-> FALSE, kill |-> TRUE]

onCancel(hasTmp) == [abort |-> hasTmp, kill |-> TRUE]

ProxyInit ==
    /\ file \in ProxyFiles
    /\ configFile = "config.yml"
    /\ pc = "serving"
    /\ cfg = LoadFile(file).v
    /\ proxyCfg = cfg
    /\ logDebug = cfg.c.LogDebug
    /\ configSuccess = 1
    /\ configSuccessTime = 1
    /\ handler = "idle"
    /\ lastReload = "none"
    /\ reloads = 0
    /\ signals = 0
    /\ applyCalls = 1
    /\ server = ServerOf(cfg.c.Server.HTTP)
    /\ served = 0
    /\ lastReq = NoReq
    /\ resp = NoResp
    /\ badRequest = 0
    /\ proxyCalls = 0
    /\ calls = <<>>
    /\ rq \in Rqs
    /\ rstate = "Received"
    /\ rstatus = 0
    /\ rbody = <<>>
    /\ admitted = FALSE
    /\ upstream = "idle"
    /\ tmpFile = FALSE
    /\ cacheFile \in BOOLEAN
    /\ abortPending = FALSE
    /\ killPending = FALSE
    /\ killsTo = <<>>
    /\ timedOut = FALSE
    /\ ConvIdle

\* Received -> Authenticated, or 401 for an unknown user
ProxyAuthenticate ==
    /\ rstate = "Received"
    /\ IF UsersNamed(proxyCfg.c, rq.name) # {}
       THEN rstate' = "Authenticated" /\ UNCHANGED rstatus
       ELSE rstate' = "Responding" /\ rstatus' = StatusUnauthorized
    /\ UNCHANGED <<mainVars, httpVars, rq, rbody, admitted, upstream, tmpFile, cacheFile,
                   abortPending, killPending, killsTo, timedOut>>
    /\ UNCHANGED convVars

\* Authenticated -> Authorized, or 403
ProxyAuthorize ==
    /\ rstate = "Authenticated"
    /\ LET a == authorize(RqUser, rq.scheme)
       IN  /\ rstate' = IF a.ok THEN "Authorized" ELSE "Responding"
           /\ rstatus' = a.status
           /\ rbody' = a.body
    /\ UNCHANGED <<mainVars, httpVars, rq, admitted, upstream, tmpFile, cacheFile,
                   abortPending, killPending, killsTo, timedOut>>
    /\ UNCHANGED convVars

\* Authorized -> Admitted, or 429 when a limiter refuses
ProxyAdmit ==
    /\ rstate = "Authorized"
    /\ \E ok \in BOOLEAN :
         IF ok THEN rstate' = "Admitted" /\ admitted' = TRUE /\ UNCHANGED rstatus
         ELSE rstate' = "Responding" /\ rstatus' = StatusTooManyRequests /\ UNCHANGED admitted
    /\ UNCHANGED <<mainVars, httpVars, rq, rbody, upstream, tmpFile, cacheFile,
                   abortPending, killPending, killsTo, timedOut>>
    /\ UNCHANGED convVars

\* Admitted -> cache hit, or Forwarding with a producer when the user has a cache
ProxyLookup ==
    /\ rstate = "Admitted"
    /\ IF RqUser.Cache # "" /\ cacheFile
       THEN /\ rstate' = "Responding"
            /\ rstatus' = StatusOK
            /\ UNCHANGED <<upstream, tmpFile>>
       ELSE /\ rstate' = "Forwarding"
            /\ upstream' = "running"
            /\ tmpFile' = (RqUser.Cache # "")
            /\ UNCHANGED rstatus
    /\ UNCHANGED <<mainVars, httpVars, rq, rbody, admitted, cacheFile, abortPending,
                   killPending, killsTo, timedOut>>
    /\ UNCHANGED convVars

\* fakeCHHandler, "SELECT SLEEP": 200 and the first bytes are flushed, then
\* the handler waits; a response that is being cached goes to the temp file,
\* any other is passed on to the client
UpstreamHold ==
    /\ upstream = "running"
    /\ rq.query = "sleep"
    /\ upstream' = "holding"
    /\ rstatus' = IF tmpFile THEN rstatus ELSE StatusOK
    /\ UNCHANGED <<mainVars, httpVars, rq, rstate, rbody, admitted, tmpFile, cacheFile,
                   abortPending, killPending, killsTo, timedOut>>
    /\ UNCHANGED convVars

\* fakeCHHandler, any other query: 200 and "Ok."
UpstreamAnswer ==
    /\ upstream = "running"
    /\ rq.query = "ok"
    /\ upstream' = "answered"
    /\ UNCHANGED <<mainVars, httpVars, rq, rstate, rstatus, rbody, admitted, tmpFile,
                   cacheFile, abortPending, killPending, killsTo, timedOut>>
    /\ UNCHANGED convVars

\* Forwarding -> Responding: the producer commits (rename of the temp file)
ProxyComplete ==
    /\ rstate = "Forwarding"
    /\ upstream = "answered"
    /\ rstate' = "Responding"
    /\ rstatus' = StatusOK
    /\ cacheFile' = (cacheFile \/ tmpFile)
    /\ tmpFile' = FALSE
    /\ UNCHANGED <<mainVars, httpVars, rq, rbody, admitted, upstream, abortPending,
                   killPending, killsTo, timedOut>>
    /\ UNCHANGED convVars

\* MaxExecutionTime expires while the upstream round trip is open
ExecTimeout ==
    /\ rstate = "Forwarding"
    /\ upstream \in {"running", "holding"}
    /\ ExecLimits(proxyCfg.c, RqUser) # {}
    /\ LET t == onExecTimeout(rstatus, tmpFile)
       IN  /\ rstatus' = t.status
           /\ abortPending' = t.abort
           /\ killPending' = t.kill
    /\ timedOut' = (upstream = "running")
    /\ upstream' = "closed"
    /\ rstate' = "Responding"
    /\ UNCHANGED <<mainVars, httpVars, rq, rbody, admitted, tmpFile, cacheFile, killsTo>>
    /\ UNCHANGED convVars

\* the client's context deadline expires while the upstream round trip is open
ClientDeadline ==
    /\ rstate = "Forwarding"
    /\ upstream \in {"running", "holding"}
    /\ rq.deadline
    /\ LET t == onCancel(tmpFile)
       IN  /\ abortPending' = t.abort
           /\ killPending' = t.kill
    /\ upstream' = "closed"
    /\ rstate' = "Cancelled"
    /\ UNCHANGED <<mainVars, httpVars, rq, rstatus, rbody, admitted, tmpFile, cacheFile,
                   killsTo, timedOut>>
    /\ UNCHANGED convVars

\* the aborted producer removes its temp file
AbortProducer ==
    /\ abortPending
    /\ tmpFile' = FALSE
    /\ abortPending' = FALSE
    /\ UNCHANGED <<mainVars, httpVars, rq, rstate, rstatus, rbody, admitted, upstream,
                   cacheFile, killPending, killsTo, timedOut>>
    /\ UNCHANGED convVars

\* the detached KILL QUERY request, sent to the request's cluster
KillQuery ==
    /\ killPending
    /\ killsTo' = Append(killsTo, RqUser.ToCluster)
    /\ killPending' = FALSE
    /\ UNCHANGED <<mainVars, httpVars, rq, rstate, rstatus, rbody, admitted, upstream,
                   tmpFile, cacheFile, abortPending, timedOut>>
    /\ UNCHANGED convVars

\* Responding -> Released
ProxyRelease ==
    /\ rstate = "Responding"
    /\ rstate' = "Released"
    /\ UNCHANGED <<mainVars, httpVars, rq, rstatus, rbody, admitted, upstream, tmpFile,
                   cacheFile, abortPending, killPending, killsTo, timedOut>>
    /\ UNCHANGED convVars

ProxyNext ==
    \/ ProxyAuthenticate
    \/ ProxyAuthorize
    \/ ProxyAdmit
    \/ ProxyLookup
    \/ UpstreamHold
    \/ UpstreamAnswer
    \/ ProxyComplete
    \/ ExecTimeout
    \/ ClientDeadline
    \/ AbortProducer
    \/ KillQuery
    \/ ProxyRelease

\* the abort and the KILL QUERY run in goroutines of their own: once
\* triggered they are carried out
ProxySpec ==
    ProxyInit /\ [][ProxyNext]_vars /\ WF_vars(AbortProducer) /\ WF_vars(KillQuery)

(***************************************************************************)
(* Duration: parseDuration and Duration.String.  A text is a sequence of   *)
(* characters.  parseDuration accepts a run of decimal digits followed by  *)
(* one unit and nothing else; String prints the value in the largest unit  *)
(* that divides it.                                                        *)
(***************************************************************************)
DigitChars == <<"0", "1", "2", "3", "4", "5", "6", "7", "8", "9">>

IsDigit(c) == \E i \in 1..Len(DigitChars) : DigitChars[i] = c

DigitVal(c) == (CHOOSE i \in 1..Len(DigitChars) : DigitChars[i] = c) - 1

SecondUnits == <<<<"w">>, <<"d">>, <<"h">>, <<"m">>, <<"s">>>>

SubSecondUnits == <<<<"m", "s">>, <<"µ", "s">>, <<"n", "s">>>>

Units == Range(SecondUnits) \cup Range(SubSecondUnits)

\* seconds in one w, d, h, m, s
UnitSeconds(u) ==
    CASE u = <<"w">> -> 7 * 24 * 3600
      [] u = <<"d">> -> 24 * 3600
      [] u = <<"h">> -> 3600
      [] u = <<"m">> -> 60
      [] u = <<"s">> -> 1

\* nanoseconds in one ms, µs, ns
UnitNanos(u) ==
    CASE u = <<"m", "s">> -> 1000000
      [] u = <<"µ", "s">> -> 1000
      [] u = <<"n", "s">> -> 1

\* how many of the unit make a second
PerSecond(u) == 1000000000 \div UnitNanos(u)

RECURSIVE Atoi(_)
Atoi(ds) ==
    IF ds = <<>> THEN 0
    ELSE Atoi(SubSeq(ds, 1, Len(ds) - 1)) * 10 + DigitVal(ds[Len(ds)])

RECURSIVE Itoa(_)
Itoa(n) ==
    IF n < 10 THEN <<DigitChars[n + 1]>>
    ELSE Itoa(n \div 10) \o <<DigitChars[(n % 10) + 1]>>

\* the length of the run of digits the text starts with
LeadDigits(t) ==
    CHOOSE k \in 0..Len(t) :
        /\ \A i \in 1..k : IsDigit(t[i])
        /\ (k < Len(t) => ~IsDigit(t[k + 1]))

\* n of the unit u, as a Duration
DurationOf(n, u) ==
    IF u \in Range(SecondUnits) THEN [s |-> n * UnitSeconds(u), ns |-> 0]
    ELSE [s |-> n \div PerSecond(u), ns |-> (n % PerSecond(u)) * UnitNanos(u)]

parseDuration(t) ==
    LET k == LeadDigits(t)
        u == SubSeq(t, k + 1, Len(t))
    IN  IF k = 0 \/ u \notin Units
        THEN [ok |-> FALSE, err |-> "not a valid duration string", d |-> ZeroDuration]
        ELSE [ok |-> TRUE, err |-> "", d |-> DurationOf(Atoi(SubSeq(t, 1, k)), u)]

\* the first unit of the list that divides the value
FirstDividing(us, v, size) ==
    us[CHOOSE i \in 1..Len(us) : v % size[us[i]] = 0 /\ \A j \in 1..(i - 1) : v % size[us[j]] # 0]

SecondSizes == [u \in Range(SecondUnits) |-> UnitSeconds(u)]

SubSecondSizes == [u \in Range(SubSecondUnits) |-> UnitNanos(u)]

\* String with the value cut to whole seconds
DurationString_WholeSeconds(d) ==
    LET u == FirstDividing(SecondUnits, d.s, SecondSizes)
    IN  Itoa(d.s \div UnitSeconds(u)) \o u

\* Duration.String: the count and the largest unit that divides the value
DurationString(d) ==
    IF d.ns = 0
    THEN LET u == FirstDividing(SecondUnits, d.s, SecondSizes)
         IN  Itoa(d.s \div UnitSeconds(u)) \o u
    ELSE LET u == FirstDividing(SubSecondUnits, d.ns, SubSecondSizes)
         IN  Itoa(d.s * PerSecond(u) + d.ns \div UnitNanos(u)) \o u

\* the texts tried: at most MaxDigits characters out of digits, a point and a
\* blank, followed by a unit, by nothing, or by something that is no unit
NumberChars == {"0", "1", "2", ".", " "}

RECURSIVE Texts(_, _)
Texts(chars, n) ==
    IF n = 0 THEN {<<>>}
    ELSE LET S == Texts(chars, n - 1) IN S \cup {Append(t, c) : t \in S, c \in chars}

NoUnits == {<<>>, <<"k", "s">>, <<"M", "s">>, <<"S">>, <<"y">>, <<"s", "m">>}

DurTexts == {n \o u : n \in Texts(NumberChars, MaxDigits), u \in Units \cup NoUnits}

DurInit ==
    /\ MainInit({NoFile}, {""})
    /\ durIn \in DurTexts
    /\ durOut = NoDur
    /\ marshalled = NoFile
    /\ again = NoLoad

\* v, err := parseDuration(value)
ParseDuration ==
    /\ durOut.phase = "none"
    /\ durOut' = [phase |-> "parsed", text |-> <<>>, re |-> NoParse] @@ parseDuration(durIn)
    /\ UNCHANGED <<mainVars, httpVars, proxyVars, durIn, marshalled, again>>

\* v.String()
FormatDuration ==
    /\ durOut.phase = "parsed"
    /\ durOut.ok
    /\ durOut' = [durOut EXCEPT !.phase = "formatted", !.text = DurationString(durOut.d)]
    /\ UNCHANGED <<mainVars, httpVars, proxyVars, durIn, marshalled, again>>

\* parseDuration of the text String gave
ParseFormatted ==
    /\ durOut.phase = "formatted"
    /\ durOut' = [durOut EXCEPT !.phase = "reparsed", !.re = parseDuration(durOut.text)]
    /\ UNCHANGED <<mainVars, httpVars, proxyVars, durIn, marshalled, again>>

DurNext ==
    \/ ParseDuration
    \/ FormatDuration
    \/ ParseFormatted

DurSpec == DurInit /\ [][DurNext]_vars

(***************************************************************************)
(* yaml.Marshal of a Config (Config.String, TestLoadConfig): the mapping   *)
(* the struct tags give.  A field tagged omitempty is left out when it     *)
(* holds its zero value; the keys of an inline XXX map are written at the  *)
(* struct's own level; a Duration is written as the text String gives.     *)
(***************************************************************************)
OmitEmpty(k, v, zero) == IF v = zero THEN EmptyMap ELSE k :> v

\* what the loader reads back from the text a Duration of v seconds is
\* written as
YAMLDuration(v) == parseDuration(DurationString([s |-> v, ns |-> 0])).d.s

OmitDuration(k, v) == IF v = 0 THEN EmptyMap ELSE k :> YAMLDuration(v)

Inline(XXX) == [k \in XXX |-> "x"]

MarshalHTTP(h) ==
    ("listen_addr" :> h.ListenAddr)
    @@ OmitDuration("read_timeout", h.ReadTimeout)
    @@ OmitDuration("write_timeout", h.WriteTimeout)
    @@ OmitDuration("idle_timeout", h.IdleTimeout)
    @@ Inline(h.XXX)

MarshalServer(sv) ==
    (IF sv.HTTP = ZeroHTTP THEN EmptyMap ELSE "http" :> MarshalHTTP(sv.HTTP)) @@ Inline(sv.XXX)

MarshalReplica(r) == ("name" :> r.Name) @@ ("nodes" :> r.Nodes) @@ Inline(r.XXX)

MarshalKillQueryUser(u) ==
    ("name" :> u.Name) @@ OmitEmpty("password", u.Password, "") @@ Inline(u.XXX)

MarshalClusterUser(cu) ==
    ("name" :> cu.Name)
    @@ OmitEmpty("password", cu.Password, "")
    @@ OmitEmpty("max_concurrent_queries", cu.MaxConcurrentQueries, 0)
    @@ OmitDuration("max_execution_time", cu.MaxExecutionTime)
    @@ OmitEmpty("requests_per_minute", cu.ReqPerMin, 0)
    @@ OmitEmpty("max_queue_size", cu.MaxQueueSize, 0)
    @@ OmitDuration("max_queue_time", cu.MaxQueueTime)
    @@ Inline(cu.XXX)

MarshalCluster(c) ==
    ("name" :> c.Name)
    @@ OmitEmpty("nodes", c.Nodes, <<>>)
    @@ (IF c.Replicas = <<>> THEN EmptyMap
        ELSE "replicas" :> [i \in 1..Len(c.Replicas) |-> MarshalReplica(c.Replicas[i])])
    @@ ("users" :> [i \in 1..Len(c.ClusterUsers) |-> MarshalClusterUser(c.ClusterUsers[i])])
    @@ (IF c.KillQueryUser = ZeroKillQueryUser THEN EmptyMap
        ELSE "kill_query_user" :> MarshalKillQueryUser(c.KillQueryUser))
    @@ OmitDuration("heartbeat_interval", c.HeartBeatInterval)
    @@ Inline(c.XXX)

MarshalUser(u) ==
    ("name" :> u.Name)
    @@ OmitEmpty("password", u.Password, "")
    @@ ("to_cluster" :> u.ToCluster)
    @@ ("to_user" :> u.ToUser)
    @@ OmitEmpty("max_concurrent_queries", u.MaxConcurrentQueries, 0)
    @@ OmitDuration("max_execution_time", u.MaxExecutionTime)
    @@ OmitEmpty("requests_per_minute", u.ReqPerMin, 0)
    @@ OmitEmpty("max_queue_size", u.MaxQueueSize, 0)
    @@ OmitDuration("max_queue_time", u.MaxQueueTime)
    @@ OmitEmpty("deny_http", u.DenyHTTP, FALSE)
    @@ OmitEmpty("deny_https", u.DenyHTTPS, FALSE)
    @@ OmitEmpty("allow_cors", u.AllowCORS, FALSE)
    @@ OmitEmpty("cache", u.Cache, "")
    @@ OmitEmpty("params", u.Params, "")
    @@ Inline(u.XXX)

MarshalCache(c) ==
    ("name" :> c.Name)
    @@ ("dir" :> c.Dir)
    @@ ("max_size" :> c.MaxSize)
    @@ OmitDuration("expire", c.Expire)
    @@ OmitDuration("grace_time", c.GraceTime)
    @@ Inline(c.XXX)

MarshalParam(p) == ("key" :> p.Key) @@ ("value" :> p.Value)

MarshalParamGroup(pg) ==
    ("name" :> pg.Name)
    @@ ("params" :> [i \in 1..Len(pg.Params) |-> MarshalParam(pg.Params[i])])
    @@ Inline(pg.XXX)

Marshal(c) ==
    (IF c.Server = ZeroServer THEN EmptyMap ELSE "server" :> MarshalServer(c.Server))
    @@ ("clusters" :> [i \in 1..Len(c.Clusters) |-> MarshalCluster(c.Clusters[i])])
    @@ ("users" :> [i \in 1..Len(c.Users) |-> MarshalUser(c.Users[i])])
    @@ OmitEmpty("log_debug", c.LogDebug, FALSE)
    @@ (IF c.Caches = <<>> THEN EmptyMap
        ELSE "caches" :> [i \in 1..Len(c.Caches) |-> MarshalCache(c.Caches[i])])
    @@ (IF c.ParamGroups = <<>> THEN EmptyMap
        ELSE "param_groups" :> [i \in 1..Len(c.ParamGroups) |->
                                  MarshalParamGroup(c.ParamGroups[i])])
    @@ Inline(c.XXX)

\* got, err := yaml.Marshal(c), written out as a file
WriteMarshalled ==
    /\ pc = "loaded"
    /\ ~marshalled.exists
    /\ marshalled' = [exists |-> TRUE, doc |-> Marshal(cfg.c)]
    /\ UNCHANGED <<mainVars, httpVars, proxyVars, durIn, durOut, again>>

\* LoadFile of the marshalled file
LoadAgain ==
    /\ marshalled.exists
    /\ ~again.done
    /\ again' = [done |-> TRUE] @@ LoadFile(marshalled)
    /\ UNCHANGED <<mainVars, httpVars, proxyVars, durIn, durOut, marshalled>>

RoundTripNext ==
    \/ MainLoad
    \/ WriteMarshalled
    \/ LoadAgain

RoundTripSpec == LoadInit /\ [][RoundTripNext]_vars

(***************************************************************************)
(* Properties of parseDuration and String (specification DurSpec)          *)
(***************************************************************************)
Formatted == durOut.phase \in {"formatted", "reparsed"}

Reparsed == durOut.phase = "reparsed"

\* the shapes the claim names: no unit, an unknown unit (also a unit in the
\* wrong letter case), a fractional number, a blank inside
Rejectable(t) ==
    \/ Len(t) > 0 /\ \A i \in 1..Len(t) : IsDigit(t[i])
    \/ \E i \in 1..Len(t) : t[i] \in {".", " "}
    \/ LeadDigits(t) > 0 /\ SubSeq(t, LeadDigits(t) + 1, Len(t)) \notin Units

RejectedAsInvalid ==
    (durOut.phase # "none" /\ Rejectable(durIn))
      => ~durOut.ok /\ durOut.err = "not a valid duration string"

\* how many of a unit make one of the next larger unit (0: there is none)
NextUnitRatio(u) ==
    CASE u \in Range(SubSecondUnits) -> 1000
      [] u \in {<<"s">>, <<"m">>} -> 60
      [] u = <<"h">> -> 24
      [] u = <<"d">> -> 7
      [] u = <<"w">> -> 0

\* an accepted text in the form String prints: a positive number without a
\* leading zero that is no whole multiple of the next larger unit
Canonical(t) ==
    LET k == LeadDigits(t)
        n == Atoi(SubSeq(t, 1, k))
        r == NextUnitRatio(SubSeq(t, k + 1, Len(t)))
    IN  /\ k > 0
        /\ SubSeq(t, k + 1, Len(t)) \in Units
        /\ t[1] # "0"
        /\ r # 0 => n % r # 0

Handled == served' = served + 1

\* C1: a request whose method is OPTIONS, on any path and with any query, is
\* answered 200 with the header Allow: GET,POST and an empty body, and
\* serveHTTP calls neither the proxy nor the metrics handler and leaves the
\* badRequest counter alone.
C1_OptionsAllowOnly ==
    [][(Handled /\ lastReq'.method = "OPTIONS")
         => /\ resp' = [status |-> 200, headers |-> {<<"Allow", "GET,POST">>}, body |-> <<>>]
            /\ calls' = <<>>
            /\ proxyCalls' = proxyCalls
            /\ badRequest' = badRequest]_vars

C1_Witness ==
    /\ lastReq = [method |-> "OPTIONS", path |-> "/metrics", query |-> "query=asd"]
    /\ resp.status = 200
    /\ <<"Allow", "GET,POST">> \in resp.headers

\* C2: a request whose method is none of GET, POST, OPTIONS, on any path, is
\* answered 405 with Connection: close and a body naming the unsupported
\* method, and the proxy is not called.
C2_OtherMethod405 ==
    [][(Handled /\ lastReq'.method \notin {"GET", "POST", "OPTIONS"})
         => /\ resp'.status = 405
            /\ <<"Connection", "close">> \in resp'.headers
            /\ resp'.body = <<"unsupported method", lastReq'.method>>
            /\ Count(calls', "proxy.ServeHTTP") = 0
            /\ proxyCalls' = proxyCalls]_vars

C2_Witness ==
    /\ lastReq.method = "CONNECT"
    /\ lastReq.path = "/"
    /\ resp.status = 405
    /\ proxyCalls = 0

\* C3: a GET or POST request whose path is none of /, /metrics, /favicon.ico
\* is answered 400 with Connection: close and a body naming the unsupported
\* path, increments badRequest by exactly one, and the proxy is not called.
C3_OtherPath400 ==
    [][(/\ Handled
        /\ lastReq'.method \in {"GET", "POST"}
        /\ lastReq'.path \notin {"/", "/metrics", "/favicon.ico"})
         => /\ resp'.status = 400
            /\ <<"Connection", "close">> \in resp'.headers
            /\ resp'.body = <<"unsupported path", lastReq'.path>>
            /\ badRequest' = badRequest + 1
            /\ Count(calls', "proxy.ServeHTTP") = 0
            /\ proxyCalls' = proxyCalls]_vars

C3_Witness ==
    /\ lastReq.method = "GET"
    /\ lastReq.path = "/foobar"
    /\ resp.status = 400
    /\ badRequest = 1

(***************************************************************************)
(* Properties of the reload (specification Spec)                           *)
(***************************************************************************)
\* C4: a reload whose file cannot be loaded or validated returns the error
\* without calling proxy.applyConfig: the configuration the proxy runs and
\* the debug-log flag stay as they were, and the process and its signal
\* goroutine go on running.
C4_FailedReloadKeepsConfig ==
    [][(reloads' = reloads + 1 /\ Failed(LoadFile(file)))
         => /\ lastReload' = "load"
            /\ applyCalls' = applyCalls
            /\ proxyCfg' = proxyCfg
            /\ logDebug' = logDebug
            /\ pc' = pc
            /\ pc' # "exited"
            /\ handler' = "idle"]_vars

C4_Witness ==
    /\ lastReload = "load"
    /\ ~file.exists
    /\ proxyCfg.loaded
    /\ logDebug
    /\ pc = "serving"

(***************************************************************************)
(* Properties of the loader (specification LoadSpec)                       *)
(***************************************************************************)
LoadDone == pc # "start"

Accepted == pc = "loaded"

NoListenAddr(d) ==
    \/ ~Has(d, "server")
    \/ ~Has(d["server"], "http")
    \/ Field(d["server"]["http"], "listen_addr", "") = ""

NoCluster(d) == Field(d, "clusters", <<>>) = <<>>

NoUser(d) == Field(d, "users", <<>>) = <<>>

\* C8: loading fails whenever the document gives no server.http.listen_addr,
\* or defines no cluster (the clusters section omitted or empty), or defines
\* no user.
C8_RequiredSections ==
    (LoadDone /\ file.exists
       /\ (NoListenAddr(file.doc) \/ NoCluster(file.doc) \/ NoUser(file.doc)))
      => ~Accepted

ClusterWellFormed(c) ==
    /\ c.Name # ""
    /\ (Len(c.Nodes) > 0) # (Len(c.Replicas) > 0)
    /\ \A r \in Range(c.Replicas) : r.Name # "" /\ Len(r.Nodes) > 0
    /\ Len(c.ClusterUsers) > 0

\* C9: in every accepted configuration every cluster has a name, exactly one
\* of nodes and replicas, replicas with a name and at least one node each,
\* and at least one cluster user.
C9_ClustersWellFormed ==
    Accepted => \A c \in Range(cfg.c.Clusters) : ClusterWellFormed(c)

\* the keys a document gives at some level that are no field of the struct
\* decoded at that level
ParamKeys == {"key", "value"}

UnknownIn(ms, known) == \E m \in ms : Overflow(m, known) # {}

Maps(ms, k) == {m[k] : m \in {x \in ms : Has(x, k)}}

Lists(ms, k) == UNION {Range(m[k]) : m \in {x \in ms : Has(x, k)}}

UnknownParamKey(d) == UnknownIn(Lists(Lists({d}, "param_groups"), "params"), ParamKeys)

UnknownStructKey(d) ==
    \/ UnknownIn({d}, ConfigKeys)
    \/ UnknownIn(Maps({d}, "server"), {"http"})
    \/ UnknownIn(Maps(Maps({d}, "server"), "http"), HTTPKeys)
    \/ UnknownIn(Lists({d}, "clusters"), ClusterKeys)
    \/ UnknownIn(Lists(Lists({d}, "clusters"), "replicas"), {"name", "nodes"})
    \/ UnknownIn(Maps(Lists({d}, "clusters"), "kill_query_user"), {"name", "password"})
    \/ UnknownIn(Lists(Lists({d}, "clusters"), "users"), ClusterUserKeys)
    \/ UnknownIn(Lists({d}, "users"), UserKeys)
    \/ UnknownIn(Lists({d}, "caches"), CacheKeys)
    \/ UnknownIn(Lists({d}, "param_groups"), {"name", "params"})

\* C10: loading fails whenever the document has a key that is no recognized
\* field at its level, at every level down to the individual param entries.
C10_UnknownKeysRejected ==
    (LoadDone /\ file.exists /\ (UnknownStructKey(file.doc) \/ UnknownParamKey(file.doc)))
      => ~Accepted

\* the write_timeout the document gives, and the sums of max_execution_time
\* and max_queue_time it gives for its users and its clusters' users
HasWriteTimeout(d) == Has(d["server"]["http"], "write_timeout")

DocWriteTimeout(d) == d["server"]["http"]["write_timeout"]

DocSum(u) == Field(u, "max_execution_time", 0) + Field(u, "max_queue_time", 0)

DocSums(d) ==
    {DocSum(u) : u \in Range(Field(d, "users", <<>>))}
    \cup UNION {{DocSum(cu) : cu \in Range(Field(cl, "users", <<>>))} :
                cl \in Range(Field(d, "clusters", <<>>))}

DocDefaultWriteTimeout(d) == Minute + SetMax(DocSums(d) \cup {0})

\* C11 as stated: a document without write_timeout is loaded with one minute
\* plus the largest max_execution_time + max_queue_time of its users and
\* cluster users, and a write_timeout the document gives is loaded unchanged.
C11_WriteTimeoutAsStated ==
    (Accepted /\ file.exists)
      => cfg.c.Server.HTTP.WriteTimeout =
           IF HasWriteTimeout(file.doc) THEN DocWriteTimeout(file.doc)
           ELSE DocDefaultWriteTimeout(file.doc)

\* C11: a document whose write_timeout is absent or zero is loaded with one
\* minute plus the largest max_execution_time + max_queue_time of its users
\* and cluster users (one minute when none is set), and a non-zero
\* write_timeout the document gives is loaded unchanged.
C11_WriteTimeoutDefault ==
    (Accepted /\ file.exists)
      => cfg.c.Server.HTTP.WriteTimeout =
           IF HasWriteTimeout(file.doc) /\ DocWriteTimeout(file.doc) # 0
           THEN DocWriteTimeout(file.doc)
           ELSE DocDefaultWriteTimeout(file.doc)

C11_Witness ==
    /\ Accepted
    /\ file = FileOf({"cu_exec"})
    /\ cfg.c.Server.HTTP.WriteTimeout = 30 + Minute

\* a user or cluster user definition of the document that sets
\* max_queue_time and gives no max_queue_size
QueueTimeOnly(m) == Field(m, "max_queue_time", 0) > 0 /\ Field(m, "max_queue_size", 0) = 0

DocUsers(d) == Range(Field(d, "users", <<>>))

DocClusterUsers(d) ==
    UNION {Range(Field(cl, "users", <<>>)) : cl \in Range(Field(d, "clusters", <<>>))}

QueueSizeMissing(name) == Err("max_queue_size must be set if max_queue_time is set", name)

\* the definition passes the checks made before the one of the queue
UserOtherwiseValid(m) ==
    /\ Field(m, "name", "") # ""
    /\ Field(m, "to_user", "") # ""
    /\ Field(m, "to_cluster", "") # ""
    /\ ~(Field(m, "deny_http", FALSE) /\ Field(m, "deny_https", FALSE))

\* C14: in every accepted configuration a user or cluster user with
\* max_queue_time > 0 has max_queue_size > 0; a document with a definition
\* that sets max_queue_time and no max_queue_size is rejected, and the
\* definition's error names that user.
C14_QueueTimeNeedsSize ==
    /\ Accepted =>
         /\ \A u \in Range(cfg.c.Users) : u.MaxQueueTime > 0 => u.MaxQueueSize > 0
         /\ \A cl \in Range(cfg.c.Clusters) : \A cu \in Range(cl.ClusterUsers) :
               cu.MaxQueueTime > 0 => cu.MaxQueueSize > 0
    /\ (LoadDone /\ file.exists) =>
         /\ \A u \in DocUsers(file.doc) :
               QueueTimeOnly(u) =>
                 /\ ~Accepted
                 /\ UserOtherwiseValid(u) => UserUnmarshal(u).err = QueueSizeMissing(u["name"])
         /\ \A cu \in DocClusterUsers(file.doc) :
               QueueTimeOnly(cu) =>
                 /\ ~Accepted
                 /\ Has(cu, "name") => ClusterUserUnmarshal(cu).err = QueueSizeMissing(cu["name"])

C14_Witness ==
    /\ LoadDone
    /\ ~Accepted
    /\ file = FileOf({"cu_queue_time"})
    /\ ClusterUserUnmarshal(file.doc["clusters"][1]["users"][1]).err = QueueSizeMissing("web")

(***************************************************************************)
(* OPTIONS and CORS                                                        *)
(***************************************************************************)
\* the proxy runs a configuration with a user that has allow_cors set
CORSConfigured == proxyCfg # NoCfg /\ \E u \in Range(proxyCfg.c.Users) : u.AllowCORS

CORSHeaders == {"Access-Control-Allow-Origin", "Access-Control-Allow-Methods",
                "Access-Control-Allow-Headers"}

\* C15: an OPTIONS request for a user configured with AllowCORS is handed
\* to the ReverseProxy, which authenticates and authorizes it and answers
\* it itself with CORS headers in the response.
C15_OptionsCORSInProxy ==
    (served > 0 /\ lastReq.method = "OPTIONS" /\ lastReq.path = "/" /\ CORSConfigured)
      => /\ Count(calls, "proxy.ServeHTTP") = 1
         /\ \E h \in resp.headers : h[1] \in CORSHeaders

(***************************************************************************)
(* SIGHUP                                                                  *)
(***************************************************************************)
\* C16: every SIGHUP delivered after startup leads to a reload attempt of
\* its own, also one that arrives while an earlier reload is in progress
\* or after a failed reload: whenever the goroutine is back in the receive,
\* reloadConfig has been called once for each SIGHUP delivered; and the
\* goroutine never leaves its loop.
C16_EverySighupReloads ==
    /\ handler = "idle" => reloads = signals
    /\ Running /\ signals > 0 => handler \in {"idle", "busy"}

(***************************************************************************)
(* Startup order                                                           *)
(***************************************************************************)
\* the proxy runs a configuration that was loaded and applied without error
Configured == proxyCfg # NoCfg /\ proxyApplyConfigOK(proxyCfg.c)

StartupOrder ==
    /\ (pc = "serving" \/ handler # "none" \/ served > 0) =>
          /\ cfg # NoCfg
          /\ applyCalls >= 1
          /\ Configured
    /\ pc = "serving" => handler # "none" /\ server.ListenAddr # ""
    /\ served > 0 => server.ListenAddr # ""

StartupStep ==
    /\ (pc = "start" /\ pc' # "start") =>
          /\ pc' = IF configFile = "" \/ Failed(LoadFile(file)) THEN "exited" ELSE "loaded"
          /\ handler' = "none" /\ served' = 0
    /\ (pc = "loaded" /\ pc' # "loaded") =>
          /\ pc' = IF proxyApplyConfigOK(cfg.c) THEN "configured" ELSE "exited"
          /\ handler' = "none" /\ served' = 0
    /\ (pc = "notified" /\ pc' # "notified") =>
          /\ pc' \in {"serving", "exited"}
          /\ served' = 0
    /\ pc = "exited" => pc' = "exited" /\ served' = served /\ reloads' = reloads

\* C17: the listener serves and the SIGHUP handler is installed only after
\* the first configuration was loaded and applied without error; a failed
\* first load, a failed first apply or a failed bind ends the process, and
\* no request is served by a proxy that has no configuration.
C17_ServeAfterFirstApply == []StartupOrder /\ [][StartupStep]_vars

\* the first apply failed: the process ended with no handler and no listener
C17_Witness ==
    /\ pc = "exited"
    /\ cfg # NoCfg
    /\ applyCalls = 1
    /\ proxyCfg = NoCfg
    /\ handler = "none"
    /\ server = NoServer
    /\ served = 0

(***************************************************************************)
(* The server section                                                      *)
(***************************************************************************)
\* C18: after any sequence of successful or failed reloads the listener's
\* address and timeouts are those of the configuration loaded at startup;
\* no step changes them once the listener serves, whatever the server
\* section of the reloaded file.
C18_ServerImmutable ==
    /\ [](pc = "serving" => server = ServerOf(cfg.c.Server.HTTP))
    /\ [][pc = "serving" => server' = server /\ cfg' = cfg]_vars

\* a reload applied a file whose write_timeout differs from the listener's
C18_Witness ==
    /\ pc = "serving"
    /\ lastReload = "ok"
    /\ proxyCfg.c.Server.HTTP.WriteTimeout # server.WriteTimeout
    /\ server = ServerOf(cfg.c.Server.HTTP)

(***************************************************************************)
(* The users of an accepted configuration                                  *)
(***************************************************************************)
BothDeny(u) == u.DenyHTTP /\ u.DenyHTTPS

\* C19 as stated: in every configuration the loader accepts, every user's
\* to_cluster names a cluster of the configuration, its to_user names a
\* cluster user of that cluster, and no user has both deny_http and
\* deny_https set.
C19_UsersResolveAsStated ==
    Accepted => \A u \in Range(cfg.c.Users) : Resolves(cfg.c, u) /\ ~BothDeny(u)

\* C19: in every configuration the loader accepts, every user has a name,
\* a to_cluster and a to_user that are not empty and does not have both
\* deny_http and deny_https set; a document with a user that sets both is
\* rejected. The loader does not look the two names up.
C19_UsersNamedNotBothDeny ==
    /\ Accepted =>
         \A u \in Range(cfg.c.Users) :
            u.Name # "" /\ u.ToCluster # "" /\ u.ToUser # "" /\ ~BothDeny(u)
    /\ (LoadDone /\ file.exists) =>
         \A u \in DocUsers(file.doc) :
            (Field(u, "deny_http", FALSE) /\ Field(u, "deny_https", FALSE)) => ~Accepted

\* accepted by the loader with a to_cluster that names no cluster
C19_Witness ==
    /\ Accepted
    /\ file = FileOf({"u_wrong_cluster", "u_deny_http"})
    /\ \E u \in Range(cfg.c.Users) :
         /\ u.ToCluster = "nowhere"
         /\ u.DenyHTTP /\ ~u.DenyHTTPS
         /\ \A cl \in Range(cfg.c.Clusters) : cl.Name # u.ToCluster

(***************************************************************************)
(* The dispatch of serveHTTP as a whole                                    *)
(***************************************************************************)
\* the outcomes of a request, told by what serveHTTP called and answered
Outcomes(cs, rp, bad) ==
    {o \in {"options", "405", "favicon", "metrics", "proxy", "400"} :
       CASE o = "options" ->
              cs = <<>> /\ bad = 0 /\ rp = Implicit({<<"Allow", "GET,POST">>})
         [] o = "405" -> cs = <<>> /\ bad = 0 /\ rp.status = StatusMethodNotAllowed
         [] o = "favicon" -> cs = <<>> /\ bad = 0 /\ rp = Implicit({})
         [] o = "metrics" ->
              cs = <<"proxy.refreshCacheMetrics", "promHandler.ServeHTTP">> /\ bad = 0
         [] o = "proxy" -> cs = <<"proxy.ServeHTTP">> /\ bad = 0
         [] o = "400" -> cs = <<>> /\ bad = 1 /\ rp.status = StatusBadRequest}

\* the outcome the method gives when it is not GET or POST, otherwise the
\* one the path gives
OutcomeOf(r) ==
    IF r.method = "OPTIONS" THEN "options"
    ELSE IF r.method \notin {"GET", "POST"} THEN "405"
    ELSE IF r.path = "/favicon.ico" THEN "favicon"
    ELSE IF r.path = "/metrics" THEN "metrics"
    ELSE IF r.path = "/" THEN "proxy"
    ELSE "400"

\* C20: serveHTTP calls proxy.ServeHTTP if and only if the method is GET or
\* POST and the path is exactly /; the method decides before the path does;
\* every request takes exactly one of the outcomes OPTIONS reply, 405,
\* empty 200 for /favicon.ico, metrics (the cache metrics refreshed before
\* the metrics handler runs), proxy, 400.
C20_DispatchComplete ==
    [][Handled =>
         /\ (proxyCalls' = proxyCalls + 1)
               <=> (lastReq'.method \in {"GET", "POST"} /\ lastReq'.path = "/")
         /\ proxyCalls' \in {proxyCalls, proxyCalls + 1}
         /\ (proxyCalls' = proxyCalls + 1) <=> (calls' = <<"proxy.ServeHTTP">>)
         /\ Outcomes(calls', resp', badRequest' - badRequest) = {OutcomeOf(lastReq')}]_vars

\* a method that is refused on a path that would be refused too: the method
\* decides
C20_Witness ==
    /\ served > 0
    /\ lastReq.method = "HEAD"
    /\ lastReq.path = "/foobar"
    /\ resp.status = StatusMethodNotAllowed
    /\ badRequest = 0
    /\ calls = <<>>

(***************************************************************************)
(* The gauges of the configuration                                         *)
(***************************************************************************)
\* the attempts made so far by a process that got through its startup: the
\* startup's and the reloads
Attempts == 1 + reloads

\* the last attempt loaded and applied its configuration (a process that
\* runs got through the startup's load and apply)
LastAttemptSucceeded == reloads = 0 \/ lastReload = "ok"

\* C21: after any sequence of startup and reload attempts the configSuccess
\* gauge is 1 exactly when the last attempt left the proxy running that
\* attempt's configuration, 0 after a failed load and after a failed apply
\* alike, and configSuccessTime is the time of the last attempt that
\* succeeded.
C21_GaugeTellsApplied ==
    Running =>
      /\ configSuccess = (IF LastAttemptSucceeded THEN 1 ELSE 0)
      /\ LastAttemptSucceeded => configSuccessTime = Attempts
      /\ (reloads > 0 /\ lastReload # "ok") => configSuccessTime < Attempts

(***************************************************************************)
(* Properties of the marshalled configuration (specification RoundTripSpec)*)
(***************************************************************************)
\* C12: for every file LoadFile accepts, loading the YAML the loaded Config
\* marshals to succeeds and yields a configuration equal to the first one.
C12_MarshalRoundTrip == again.done => ~Failed(again) /\ again.v = cfg

(***************************************************************************)
(* Properties of the request in the proxy (specification ProxySpec)        *)
(***************************************************************************)
Cacheable == UsersNamed(proxyCfg.c, rq.name) # {} /\ RqUser.Cache # ""

Pending(b) == IF b THEN 1 ELSE 0

\* C5: when the client's deadline expires while a cacheable request is being
\* forwarded and the upstream holds the response open, a KILL QUERY is
\* eventually sent and the cache directory ends up with no file of the
\* request, neither a committed entry nor a temp file.
C5_DeadlineKillsAndCleans ==
    /\ []((rstate = "Cancelled" /\ Cacheable) => ~cacheFile)
    /\ (rstate = "Cancelled" /\ Cacheable) ~> [](killsTo # <<>> /\ ~tmpFile /\ ~cacheFile)

C5_Witness ==
    /\ rstate = "Cancelled"
    /\ Cacheable
    /\ rq.query = "sleep"
    /\ killsTo = <<"first">>
    /\ ~tmpFile
    /\ ~cacheFile

\* C6: a request whose MaxExecutionTime elapses before the upstream has
\* answered is answered 504, and a request answered 504 has exactly one KILL
\* QUERY attempt, made against its own cluster.
C6_TimeoutOneKill ==
    /\ [](timedOut => rstatus = 504)
    /\ [](rstatus = 504 =>
            /\ Len(killsTo) + Pending(killPending) = 1
            /\ \A i \in 1..Len(killsTo) : killsTo[i] = RqUser.ToCluster)
    /\ (rstatus = 504) ~> [](Len(killsTo) = 1)

C6_Witness ==
    /\ timedOut
    /\ rstatus = 504
    /\ killsTo = <<"first">>
    /\ ~killPending

\* the document on disk sets deny_http for the user named n
DenyHTTPConfigured(n) ==
    \E i \in 1..Len(Field(file.doc, "users", <<>>)) :
        /\ Field(file.doc["users"][i], "name", "") = n
        /\ Field(file.doc["users"][i], "deny_http", FALSE)

\* C7: a request over plain HTTP for a user whose configuration says
\* deny_http is answered 403 with the body naming the user, and is neither
\* admitted nor forwarded to a backend host.
C7_DenyHTTP ==
    (rq.scheme = "http" /\ DenyHTTPConfigured(rq.name))
      => /\ ~admitted
         /\ upstream = "idle"
         /\ rstate \in {"Received", "Authenticated", "Responding", "Released"}
         /\ rstate \in {"Responding", "Released"}
              => /\ rstatus = 403
                 /\ rbody = <<"user", rq.name, "is not allowed to access via", "http">>

C7_Witness ==
    /\ rq.scheme = "http"
    /\ DenyHTTPConfigured(rq.name)
    /\ rstate = "Released"
    /\ rstatus = 403

====
